---- MODULE Spec2Model ----
(***************************************************************************)
(* Model of the event-log parser: the byte cursor and field grammar        *)
(* (parser.rs), the period-log record decoder and its chunked driver       *)
(* (events.rs) and the reference-table decoder and its driver              *)
(* (references.rs).                                                        *)
(*                                                                         *)
(* A byte window is a sequence of byte values (0..255).  A cursor is the   *)
(* number of bytes already consumed, so the next byte of window b at       *)
(* cursor p is b[p + 1] and the window ends at Len(b).  Every parsing      *)
(* operator returns a record [st, pos, val]: st is "Ok", "End" (the        *)
(* Option::None / ParseError::End outcome), "Invalid"                      *)
(* (ParseError::InvalidFormat) or "Panic" (the process aborts); pos is the *)
(* cursor the parser is left at, which the code keeps also on failure.     *)
(***************************************************************************)
EXTENDS Integers, Sequences, FiniteSets, TLC

\* ------------------------------------------------------------------ bytes
LBRACE == 123
RBRACE == 125
COMMA == 44
QUOTE == 34
CR == 13
LF == 10
ZERO == 48
SPACE == 32

Min(a, b) == IF a < b THEN a ELSE b
Max(a, b) == IF a < b THEN b ELSE a

Ok(p, v) == [st |-> "Ok", pos |-> p, val |-> v]
Fail(s, p) == [st |-> s, pos |-> p, val |-> <<>>]

\* the `?` operator: a failed r ends the enclosing decoder with r's outcome
\* at r's cursor, a successful one is handed on
Try(r, K(_)) == IF r.st # "Ok" THEN Fail(r.st, r.pos) ELSE K(r)

\* `let v = ...;`
Bind(v, K(_)) == K(v)

\* ------------------------------------------------------------------ cursor
\* Parser::next
PNext(b, p) ==
    IF p = Len(b) THEN Fail("End", p) ELSE Ok(p + 1, b[p + 1])

\* Parser::skip
Skip(b, p, count) ==
    IF p + count > Len(b) THEN Fail("End", p) ELSE Ok(p + count, <<>>)

\* libc::memchr over b[i..Len(b)]: the index of the first ch, 0 for null
RECURSIVE MemChr(_, _, _)
MemChr(b, i, ch) ==
    IF i > Len(b) THEN 0
    ELSE IF b[i] = ch THEN i
    ELSE MemChr(b, i + 1, ch)

\* Parser::skip_to
SkipTo(b, p, ch) ==
    Bind(MemChr(b, p + 1, ch), LAMBDA new_ptr :
        IF new_ptr = 0 THEN Fail("End", p) ELSE Ok(new_ptr, <<>>))

\* the first pointer whenever it is not null
FirstOfFormer(new_ptr1, new_ptr2) ==
    IF new_ptr1 = 0 THEN new_ptr2 ELSE new_ptr1

\* the choice of new_ptr in Parser::skip_to2
FirstOf(new_ptr1, new_ptr2) ==
    IF new_ptr1 = 0 THEN new_ptr2
    ELSE IF new_ptr2 = 0 THEN new_ptr1
    ELSE IF new_ptr1 < new_ptr2 THEN new_ptr1
    ELSE new_ptr2

\* skip_to2 leaving the cursor at the end of the window when it finds neither
SkipTo2Exhausting(b, p, ch1, ch2) ==
    Bind(FirstOf(MemChr(b, p + 1, ch1), MemChr(b, p + 1, ch2)), LAMBDA new_ptr :
        IF new_ptr = 0 THEN Fail("End", Len(b)) ELSE Ok(new_ptr, <<>>))

\* Parser::skip_to2
SkipTo2(b, p, ch1, ch2) ==
    Bind(FirstOf(MemChr(b, p + 1, ch1), MemChr(b, p + 1, ch2)), LAMBDA new_ptr :
        IF new_ptr = 0 THEN Fail("End", p) ELSE Ok(new_ptr, <<>>))

\* Parser::current
Current(b, p) ==
    IF p = 0 THEN Fail("Panic", p) ELSE Ok(p, b[p])

\* Parser::peek
Peek(b, p) ==
    IF p = Len(b) THEN Fail("End", p) ELSE Ok(p, b[p + 1])

\* `while parser.next()? != b'{' {}`: the cursor ends just past the first
\* `{`, or at the end of the window when there is none
RECURSIVE SeekBrace(_, _)
SeekBrace(b, p) ==
    Try(PNext(b, p), LAMBDA n :
        IF n.val = LBRACE THEN Ok(n.pos, <<>>) ELSE SeekBrace(b, n.pos))

\* ------------------------------------------------------------------ fields
\* `next - b'0'` on u8: with overflow checks (debug build) a byte below
\* '0' aborts, without them (release build) the difference wraps.
\* chk is TRUE for the build with overflow checks.  -1 stands for the abort.
\* the byte taken as the digit's value
SubZeroRaw(chk, byte) == byte

SubZero(chk, byte) ==
    IF byte >= ZERO THEN byte - ZERO
    ELSE IF chk THEN -1
    ELSE byte - ZERO + 256

\* usize arithmetic.  TLC's integers are narrower than the 64-bit
\* word, so the accumulator of parse_usize is kept exactly, as four 16-bit
\* limbs (least significant first).
Limb == 65536

\* number * 10 + d on limbs; carry is what does not fit the 64-bit word
MulAdd(n, d) ==
    LET t1 == n[1] * 10 + d
        t2 == n[2] * 10 + (t1 \div Limb)
        t3 == n[3] * 10 + (t2 \div Limb)
        t4 == n[4] * 10 + (t3 \div Limb)
    IN  [limbs |-> << t1 % Limb, t2 % Limb, t3 % Limb, t4 % Limb >>,
         carry |-> t4 \div Limb]

\* A usize as the model holds it: the number itself below 2^31, and Huge for
\* every larger one
Huge == -1

ToUsize(n) ==
    IF n[4] = 0 /\ n[3] = 0 /\ n[2] < 32768 THEN n[2] * Limb + n[1] ELSE Huge

\* `as u32` of a usize
ToU32(n) == IF n[2] < 32768 THEN n[2] * Limb + n[1] ELSE Huge

\* the loop of Parser::parse_usize; val is the accumulated number, as limbs.
\* `number * 10 + d` past the word aborts with overflow checks and wraps
\* without them.
RECURSIVE UsizeLoop(_, _, _, _)
UsizeLoop(chk, b, p, number) ==
    Try(PNext(b, p), LAMBDA n :
        IF n.val = COMMA \/ n.val = RBRACE THEN Ok(n.pos, number)
        ELSE IF SubZero(chk, n.val) < 0 THEN Fail("Panic", n.pos)
        ELSE Bind(MulAdd(number, SubZero(chk, n.val)), LAMBDA m :
                IF chk /\ m.carry > 0 THEN Fail("Panic", n.pos)
                ELSE UsizeLoop(chk, b, n.pos, m.limbs)))

\* Parser::parse_usize
ParseUsize(chk, b, p) ==
    Try(UsizeLoop(chk, b, p, << 0, 0, 0, 0 >>), LAMBDA r : Ok(r.pos, ToUsize(r.val)))

\* `parser.parse_usize()? as u32`
ParseU32(chk, b, p) ==
    Try(UsizeLoop(chk, b, p, << 0, 0, 0, 0 >>), LAMBDA r : Ok(r.pos, ToU32(r.val)))

\* Parser::parse_raw
ParseRaw(b, p) ==
    Try(SkipTo2(b, p, COMMA, RBRACE), LAMBDA s :
        Ok(s.pos, SubSeq(b, p + 1, s.pos - 1)))

\* Uuid::from_str (external crate), as far as the decoder depends on it: the
\* text is accepted when it is 36 hyphenated or 32 plain hexadecimal digits
IsHex(c) == (c >= 48 /\ c <= 57) \/ (c >= 97 /\ c <= 102) \/ (c >= 65 /\ c <= 70)

UuidFromStr(s) ==
    IF Len(s) = 36
    THEN \A i \in 1..36 : IF i \in {9, 14, 19, 24} THEN s[i] = 45 ELSE IsHex(s[i])
    ELSE Len(s) = 32 /\ \A i \in 1..32 : IsHex(s[i])

\* Parser::parse_uuid: `Uuid::from_str(s).unwrap()` aborts on a rejected text
ParseUuid(b, p) ==
    Try(ParseRaw(b, p), LAMBDA raw :
        IF UuidFromStr(raw.val) THEN raw ELSE Fail("Panic", raw.pos))

\* the loop of Parser::parse_str; val is need_replace_quotes
RECURSIVE StrLoop(_, _, _)
StrLoop(b, p, need_replace_quotes) ==
    Try(SkipTo(b, p, QUOTE), LAMBDA s :
        Try(PNext(b, s.pos), LAMBDA next :
            IF next.val = COMMA \/ next.val = RBRACE
            THEN Ok(next.pos, need_replace_quotes)
            ELSE IF next.val = QUOTE THEN StrLoop(b, next.pos, TRUE)
            ELSE StrLoop(b, next.pos, need_replace_quotes)))

\* parse_str with the slice one byte longer: the closing quote included
ParseStrLong(b, p) ==
    Try(PNext(b, p), LAMBDA ch :
        IF ch.val # QUOTE THEN Fail("Panic", ch.pos)
        ELSE Try(StrLoop(b, ch.pos, FALSE), LAMBDA l :
                Ok(l.pos, [s |-> SubSeq(b, ch.pos + 1, l.pos - 1),
                           need_replace_quotes |-> l.val])))

\* parse_str with need_replace_quotes left as initialised
ParseStrUnflagged(b, p) ==
    Try(PNext(b, p), LAMBDA ch :
        IF ch.val # QUOTE THEN Fail("Panic", ch.pos)
        ELSE Try(StrLoop(b, ch.pos, FALSE), LAMBDA l :
                Ok(l.pos, [s |-> SubSeq(b, ch.pos + 1, l.pos - 2),
                           need_replace_quotes |-> FALSE])))

\* Parser::parse_str: val is the LogStr
ParseStr(b, p) ==
    Try(PNext(b, p), LAMBDA ch :
        IF ch.val # QUOTE THEN Fail("Panic", ch.pos)
        ELSE Try(StrLoop(b, ch.pos, FALSE), LAMBDA l :
                Ok(l.pos, [s |-> SubSeq(b, ch.pos + 1, l.pos - 2),
                           need_replace_quotes |-> l.val])))

\* str::replace("\"\"", "\""): left to right, non-overlapping
RECURSIVE ReplaceQuotes(_, _)
ReplaceQuotes(s, i) ==
    IF i > Len(s) THEN <<>>
    ELSE IF i < Len(s) /\ s[i] = QUOTE /\ s[i + 1] = QUOTE
         THEN <<QUOTE>> \o ReplaceQuotes(s, i + 2)
    ELSE <<s[i]>> \o ReplaceQuotes(s, i + 1)

\* LogStr::str
Str(ls) == IF ls.need_replace_quotes THEN ReplaceQuotes(ls.s, 1) ELSE ls.s

\* Parser::parse_object and its `while !end_of_record` loop, which call each
\* other, as one operator: Object(b, p, FALSE) is parse_object at cursor p,
\* Object(b, p, TRUE) is the loop at cursor p.  The loop runs past the `{`,
\* so current() never aborts in it.
RECURSIVE Object(_, _, _)
Object(b, p, in_loop) ==
    IF in_loop
    THEN Try(Peek(b, p), LAMBDA peek :
            Try(IF peek.val = QUOTE THEN ParseStr(b, p)
                ELSE IF peek.val = LBRACE THEN Object(b, p, FALSE)
                ELSE IF peek.val = CR THEN Skip(b, p, 2)
                ELSE ParseRaw(b, p),
                LAMBDA f :
                    IF Current(b, f.pos).val = RBRACE THEN Ok(f.pos, <<>>)
                    ELSE Object(b, f.pos, TRUE)))
    ELSE Try(SeekBrace(b, p), LAMBDA open :
            Try(Object(b, open.pos, TRUE), LAMBDA l :
                Try(PNext(b, l.pos), LAMBDA n1 :
                    Try(IF n1.val = CR
                        THEN Try(Skip(b, n1.pos, 1), LAMBDA sk : PNext(b, sk.pos))
                        ELSE n1,
                        LAMBDA last :
                            IF last.val # COMMA /\ last.val # RBRACE
                            THEN Fail("Panic", last.pos)
                            ELSE Ok(last.pos, SubSeq(b, open.pos, last.pos - 1))))))

\* parse_object with the terminator looked at but left in the window
ParseObjectUnconsumed(b, p) ==
    Try(Object(b, p, FALSE), LAMBDA r : Ok(r.pos - 1, r.val))

\* Parser::parse_object
ParseObject(b, p) == Object(b, p, FALSE)

\* ------------------------------------------------------------------ events.rs
\* next2 of parse_datetime: two bytes folded as decimal digits; the left
\* operand is evaluated (and may abort) before the second byte is read
Next2(chk, b, p) ==
    Try(PNext(b, p), LAMBDA a :
        IF SubZero(chk, a.val) < 0 THEN Fail("Panic", a.pos)
        ELSE Try(PNext(b, a.pos), LAMBDA c :
                IF SubZero(chk, c.val) < 0 THEN Fail("Panic", c.pos)
                ELSE Ok(c.pos, SubZero(chk, a.val) * 10 + SubZero(chk, c.val))))

\* the seven next2 calls of parse_datetime, in order; val is their values
RECURSIVE Next2Groups(_, _, _, _, _)
Next2Groups(chk, b, p, k, acc) ==
    IF k = 0 THEN Ok(p, acc)
    ELSE Try(Next2(chk, b, p), LAMBDA g :
            Next2Groups(chk, b, g.pos, k - 1, Append(acc, g.val)))

\* chrono's NaiveDate::from_ymd_opt(..).and_hms_opt(..) (external crate)
DaysInMonth(year, month) ==
    IF month \in {4, 6, 9, 11} THEN 30
    ELSE IF month # 2 THEN 31
    ELSE IF year % 4 = 0 /\ (year % 100 # 0 \/ year % 400 = 0) THEN 29
    ELSE 28

ValidDateTime(year, month, day, hour, min, sec) ==
    /\ year <= 262142
    /\ month \in 1..12
    /\ day >= 1 /\ day <= DaysInMonth(year, month)
    /\ hour < 24 /\ min < 60 /\ sec < 60

\* the date and time of the seven groups g: year = g[1] * 100 + g[2]
DateTimeOf(g) == << g[1] * 100 + g[2], g[3], g[4], g[5], g[6], g[7] >>

\* parse_datetime
ParseDatetime(chk, b, p) ==
    Try(Next2Groups(chk, b, p, 7, <<>>), LAMBDA g :
        Try(Skip(b, g.pos, 1), LAMBDA sk :
            Bind(DateTimeOf(g.val), LAMBDA d :
                IF ValidDateTime(d[1], d[2], d[3], d[4], d[5], d[6])
                THEN Ok(sk.pos, d)
                ELSE Fail("Invalid", sk.pos))))

\* parse_transaction_status (codes R N U C) and parse_log_level (E I N W):
\* one code byte, one skipped byte, then the mapping
ParseCode(b, p, codes) ==
    Try(PNext(b, p), LAMBDA ch :
        Try(Skip(b, ch.pos, 1), LAMBDA sk :
            IF ch.val \in codes THEN Ok(sk.pos, ch.val) ELSE Fail("Invalid", sk.pos)))

ParseTransactionStatus(b, p) == ParseCode(b, p, {82, 78, 85, 67})

ParseLogLevel(b, p) == ParseCode(b, p, {69, 73, 78, 87})

\* the 19 fields of parse_record, in the order they are decoded
EventSchema ==
    << "datetime", "tstatus", "object", "usize", "usize", "usize", "usize",
       "usize", "level", "str", "usize", "object", "str", "usize", "usize",
       "usize", "usize", "usize", "object" >>

ParseField(kind, chk, b, p) ==
    CASE kind = "datetime" -> ParseDatetime(chk, b, p)
      [] kind = "tstatus" -> ParseTransactionStatus(b, p)
      [] kind = "level" -> ParseLogLevel(b, p)
      [] kind = "object" -> ParseObject(b, p)
      [] kind = "usize" -> ParseUsize(chk, b, p)
      [] kind = "str" -> ParseStr(b, p)
      [] kind = "uuid" -> ParseUuid(b, p)
      [] kind = "u32" -> ParseU32(chk, b, p)

\* a `?` chain of field decoders (parse_record, parser_record): the first
\* field that fails ends the record with that outcome
RECURSIVE RecordFields(_, _, _, _, _, _)
RecordFields(schema, chk, b, p, i, acc) ==
    IF i > Len(schema) THEN Ok(p, acc)
    ELSE Try(ParseField(schema[i], chk, b, p), LAMBDA f :
            RecordFields(schema, chk, b, f.pos, i + 1, Append(acc, f.val)))

MkEvent(f) ==
    [ date |-> f[1], transaction_status |-> f[2], transaction_data |-> f[3],
      user_id |-> f[4], computer_id |-> f[5], application_id |-> f[6],
      connection |-> f[7], event_id |-> f[8], log_level |-> f[9],
      comment |-> f[10], metadata_id |-> f[11], data |-> f[12],
      data_presentation |-> f[13], worker_server_id |-> f[14],
      port_id |-> f[15], sync_port_id |-> f[16], session |-> f[17],
      unknown1 |-> f[18], unknown2 |-> f[19] ]

\* parse_record (events.rs)
ParseRecord(chk, b, p) ==
    Try(SeekBrace(b, p), LAMBDA open :
        Try(RecordFields(EventSchema, chk, b, open.pos, 1, <<>>), LAMBDA fs :
            Ok(fs.pos, MkEvent(fs.val))))

\* the result of parse_buffer: ret is the returned position, events the
\* callback's arguments in order, why the exit taken: "End" (line 198),
\* "NoCR" (line 201) or "Panic"
Pass(position, events, exit) == [ret |-> position, events |-> events, why |-> exit]

\* parse_buffer (events.rs), from cursor p with the events emitted so far
RECURSIVE ParseBufferFrom(_, _, _, _)
ParseBufferFrom(chk, b, p, events) ==
    Bind(ParseRecord(chk, b, p), LAMBDA r :
        IF r.st = "Ok" THEN ParseBufferFrom(chk, b, r.pos, Append(events, r.val))
        ELSE IF r.st # "Invalid" THEN Pass(p, events, r.st)
        ELSE Bind(SkipTo(b, r.pos, CR), LAMBDA s :
                IF s.st # "Ok" THEN Pass(p, events, "NoCR")
                ELSE ParseBufferFrom(chk, b, s.pos, events)))

ParseBuffer(chk, b) == ParseBufferFrom(chk, b, 0, <<>>)

\* ------------------------------------------------------------------ references.rs
\* a Uuid value: the 32 hexadecimal digits of the text, lower case
LowerHex(c) == IF c >= 65 /\ c <= 70 THEN c + 32 ELSE c

UuidValue(s) ==
    LET digits == SelectSeq(s, IsHex)
    IN  [i \in 1..Len(digits) |-> LowerHex(digits[i])]

\* Default::default() of the table elements
NilUuid == [i \in 1..32 |-> ZERO]
DefaultUser == [id |-> NilUuid, name |-> <<>>]
DefaultString == <<>>
DefaultPort == 0

TableNames ==
    << "users", "computers", "applications", "events", "metadata",
       "worker_servers", "ports", "sync_ports" >>

DefaultOf(table) ==
    IF table \in {"users", "metadata"} THEN DefaultUser
    ELSE IF table \in {"ports", "sync_ports"} THEN DefaultPort
    ELSE DefaultString

\* References::default()
EmptyRefs == [n \in {TableNames[i] : i \in 1..Len(TableNames)} |-> <<>>]

\* add_ref with the Greater arm pushing the value without the defaults
add_ref_unpadded(vec, value, num, default) ==
    IF num < Len(vec) THEN [vec EXCEPT ![num + 1] = value]
    ELSE Append(vec, value)

\* add_ref with the Less arm dropping what follows the index
add_ref_truncating(vec, value, num, default) ==
    IF num < Len(vec) THEN Append(SubSeq(vec, 1, num), value)
    ELSE IF num = Len(vec) THEN Append(vec, value)
    ELSE vec \o [i \in 1..(num - Len(vec)) |-> default] \o <<value>>

\* add_ref; default is T::default()
add_ref(vec, value, num, default) ==
    IF num < Len(vec) THEN [vec EXCEPT ![num + 1] = value]
    ELSE IF num = Len(vec) THEN Append(vec, value)
    ELSE vec \o [i \in 1..(num - Len(vec)) |-> default] \o <<value>>

\* the payload decoded by each arm of the match in parser_record (the
\* default build, without the data-separation feature)
RefSchema(tag) ==
    IF tag \in {1, 5, 9} THEN << "uuid", "str", "usize" >>
    ELSE IF tag \in {2, 3, 4, 6} THEN << "str", "usize" >>
    ELSE IF tag \in {7, 8} THEN << "u32", "usize" >>
    ELSE IF tag = 13 THEN << "usize", "usize" >>
    ELSE IF tag = 10 THEN << "object", "usize", "usize" >>
    ELSE IF tag \in {11, 12} THEN << "object", "usize" >>
    ELSE << >>

\* the arms of the match with those of tags 2 and 3 exchanged
ApplyRefExchanged(refs, tag, f) ==
    IF tag \in {1, 5}
    THEN LET table == IF tag = 1 THEN "users" ELSE "metadata"
             value == [id |-> UuidValue(f[1]), name |-> Str(f[2])]
         IN  [refs EXCEPT ![table] = add_ref(@, value, f[3], DefaultUser)]
    ELSE IF tag \in {2, 3, 4, 6}
    THEN LET table == IF tag = 2 THEN "applications"
                      ELSE IF tag = 3 THEN "computers"
                      ELSE IF tag = 4 THEN "events"
                      ELSE "worker_servers"
         IN  [refs EXCEPT ![table] = add_ref(@, Str(f[1]), f[2], DefaultString)]
    ELSE IF tag \in {7, 8}
    THEN LET table == IF tag = 7 THEN "ports" ELSE "sync_ports"
         IN  [refs EXCEPT ![table] = add_ref(@, f[1], f[2], DefaultPort)]
    ELSE refs

\* the add_ref call of each arm, on the decoded payload f
ApplyRef(refs, tag, f) ==
    IF tag \in {1, 5}
    THEN LET table == IF tag = 1 THEN "users" ELSE "metadata"
             value == [id |-> UuidValue(f[1]), name |-> Str(f[2])]
         IN  [refs EXCEPT ![table] = add_ref(@, value, f[3], DefaultUser)]
    ELSE IF tag \in {2, 3, 4, 6}
    THEN LET table == IF tag = 2 THEN "computers"
                      ELSE IF tag = 3 THEN "applications"
                      ELSE IF tag = 4 THEN "events"
                      ELSE "worker_servers"
         IN  [refs EXCEPT ![table] = add_ref(@, Str(f[1]), f[2], DefaultString)]
    ELSE IF tag \in {7, 8}
    THEN LET table == IF tag = 7 THEN "ports" ELSE "sync_ports"
         IN  [refs EXCEPT ![table] = add_ref(@, f[1], f[2], DefaultPort)]
    ELSE refs

\* The largest index the model lets a record insert at.  The code pads the
\* table up to any index; the model ends a run with the outcome "TooBig"
\* at a larger one and does not follow it further.
MaxIndex == 40

\* References::parser_record; val is the tables after the record
ParserRecord(chk, refs, b, p) ==
    Try(SeekBrace(b, p), LAMBDA open :
        Try(ParseUsize(chk, b, open.pos), LAMBDA tag :
            Try(RecordFields(RefSchema(tag.val), chk, b, tag.pos, 1, <<>>), LAMBDA fs :
                IF tag.val \in 1..8 /\ ~(fs.val[Len(fs.val)] \in 0..MaxIndex)
                THEN Fail("TooBig", fs.pos)
                ELSE Ok(fs.pos, ApplyRef(refs, tag.val, fs.val)))))

\* the result of References::parse_buffer: ret is the returned position,
\* refs the tables after the pass, why the exit taken: "End" (line 110),
\* "NoCR" (line 113), "Panic" or "TooBig"
RefsPass(position, refs, exit) == [ret |-> position, refs |-> refs, why |-> exit]

\* References::parse_buffer, from cursor p; refs is the tables so far
RECURSIVE RefsParseBufferFrom(_, _, _, _)
RefsParseBufferFrom(chk, refs, b, p) ==
    Bind(ParserRecord(chk, refs, b, p), LAMBDA r :
        IF r.st = "Ok" THEN RefsParseBufferFrom(chk, r.val, b, r.pos)
        ELSE IF r.st # "Invalid" THEN RefsPass(p, refs, r.st)
        ELSE Bind(SkipTo(b, r.pos, CR), LAMBDA s :
                IF s.st # "Ok" THEN RefsPass(p, refs, "NoCR")
                ELSE RefsParseBufferFrom(chk, refs, b, s.pos)))

RefsParseBuffer(chk, refs, b) == RefsParseBufferFrom(chk, refs, b, 0)

\* ------------------------------------------------------------------ lookups
\* <[T]>::get: Some(&slice[index]) inside the slice, None outside it
Get(slice, index) ==
    IF index >= 0 /\ index < Len(slice)
    THEN [some |-> TRUE, val |-> slice[index + 1]]
    ELSE [some |-> FALSE, val |-> <<>>]

\* the field of Event each accessor resolves (events.rs, lines 63-143)
IdField(table) ==
    CASE table = "users" -> "user_id"
      [] table = "computers" -> "computer_id"
      [] table = "applications" -> "application_id"
      [] table = "events" -> "event_id"
      [] table = "metadata" -> "metadata_id"
      [] table = "worker_servers" -> "worker_server_id"
      [] table = "ports" -> "port_id"
      [] table = "sync_ports" -> "sync_port_id"

\* Event::user, computer, application, event, metadata, worker_server,
\* port and sync_port: the accessor of the given table
Resolve(event, references, table) == Get(references[table], event[IdField(table)])

\* ------------------------------------------------------------------ inputs
\* period-log records, each well formed
\* {20221212000000,N,{0},1,1,1,1,1,I,"a",1,{0},"",1,1,1,1,0,{0}}  (61 bytes)
EvA ==
    << 123, 50, 48, 50, 50, 49, 50, 49, 50, 48, 48, 48, 48, 48, 48, 44, 78,
       44, 123, 48, 125, 44, 49, 44, 49, 44, 49, 44, 49, 44, 49, 44, 73, 44,
       34, 97, 34, 44, 49, 44, 123, 48, 125, 44, 34, 34, 44, 49, 44, 49, 44,
       49, 44, 49, 44, 48, 44, 123, 48, 125, 125 >>

\* {20221212000001,C,\r\n{0,1},2,1,1,1,2,E,"b""c",1,{"U"},"",1,1,1,1,0,\r\n{0}\r\n}  (74 bytes)
EvB ==
    << 123, 50, 48, 50, 50, 49, 50, 49, 50, 48, 48, 48, 48, 48, 49, 44, 67,
       44, 13, 10, 123, 48, 44, 49, 125, 44, 50, 44, 49, 44, 49, 44, 49, 44,
       50, 44, 69, 44, 34, 98, 34, 34, 99, 34, 44, 49, 44, 123, 34, 85, 34,
       125, 44, 34, 34, 44, 49, 44, 49, 44, 49, 44, 49, 44, 48, 44, 13, 10,
       123, 48, 125, 13, 10, 125 >>

\* {20221212000002,U,{0},3,1,1,1,3,W,"c",1,{0},"",1,1,1,1,0,{0}}  (61 bytes)
EvC ==
    << 123, 50, 48, 50, 50, 49, 50, 49, 50, 48, 48, 48, 48, 48, 50, 44, 85,
       44, 123, 48, 125, 44, 51, 44, 49, 44, 49, 44, 49, 44, 51, 44, 87, 44,
       34, 99, 34, 44, 49, 44, 123, 48, 125, 44, 34, 34, 44, 49, 44, 49, 44,
       49, 44, 49, 44, 48, 44, 123, 48, 125, 125 >>

\* dictionary records, each well formed
\* {1,d303f30c-9e76-412f-95d2-3c3622e6b6e1,"Executor",1}  (53 bytes)
DictUser ==
    << 123, 49, 44, 100, 51, 48, 51, 102, 51, 48, 99, 45, 57, 101, 55, 54,
       45, 52, 49, 50, 102, 45, 57, 53, 100, 50, 45, 51, 99, 51, 54, 50, 50,
       101, 54, 98, 54, 101, 49, 44, 34, 69, 120, 101, 99, 117, 116, 111,
       114, 34, 44, 49, 125 >>

\* {2,"computer1",2}  (17 bytes)
DictComputer ==
    << 123, 50, 44, 34, 99, 111, 109, 112, 117, 116, 101, 114, 49, 34, 44,
       50, 125 >>

\* {7,80,1}  (8 bytes)
DictPort ==
    << 123, 55, 44, 56, 48, 44, 49, 125 >>

\* {4,"an event name longer than the initial buffer of the driver",0}  (66 bytes)
DictLong ==
    << 123, 52, 44, 34, 97, 110, 32, 101, 118, 101, 110, 116, 32, 110, 97,
       109, 101, 32, 108, 111, 110, 103, 101, 114, 32, 116, 104, 97, 110,
       32, 116, 104, 101, 32, 105, 110, 105, 116, 105, 97, 108, 32, 98, 117,
       102, 102, 101, 114, 32, 111, 102, 32, 116, 104, 101, 32, 100, 114,
       105, 118, 101, 114, 34, 44, 48, 125 >>


\* the separator the log writer puts after a record
Sep == << COMMA, CR, LF >>

\* the bytes of a source made of the given records, each followed by Sep
RECURSIVE Flatten(_)
Flatten(records) ==
    IF records = <<>> THEN <<>>
    ELSE Head(records) \o Sep \o Flatten(Tail(records))

\* EvB is longer than the initial buffer, EvA and EvC are not
EventSources == { <<EvA>>, <<EvA, EvC>>, <<EvB, EvA>>, <<EvA, EvB>> }

DictSources ==
    { <<DictUser, DictComputer, DictPort>>, <<DictComputer, DictLong, DictPort>> }

\* byte sequences that are not valid records
\* not a record: no brace.  garbage  (7 bytes)
GarbageText ==
    << 103, 97, 114, 98, 97, 103, 101 >>

\* a record with a malformed date (month 13).  {20221312000000,N,{0},1,1,1,1,1,I,"a",1,{0},"",1,1,1,1,0,{0}}  (61 bytes)
GarbageMonth ==
    << 123, 50, 48, 50, 50, 49, 51, 49, 50, 48, 48, 48, 48, 48, 48, 44, 78,
       44, 123, 48, 125, 44, 49, 44, 49, 44, 49, 44, 49, 44, 49, 44, 73, 44,
       34, 97, 34, 44, 49, 44, 123, 48, 125, 44, 34, 34, 44, 49, 44, 49, 44,
       49, 44, 49, 44, 48, 44, 123, 48, 125, 125 >>

\* a record with a malformed transaction status.  {20221212000000,X,{0},1,1,1,1,1,I,"a",1,{0},"",1,1,1,1,0,{0}}  (61 bytes)
GarbageStatus ==
    << 123, 50, 48, 50, 50, 49, 50, 49, 50, 48, 48, 48, 48, 48, 48, 44, 88,
       44, 123, 48, 125, 44, 49, 44, 49, 44, 49, 44, 49, 44, 49, 44, 73, 44,
       34, 97, 34, 44, 49, 44, 123, 48, 125, 44, 34, 34, 44, 49, 44, 49, 44,
       49, 44, 49, 44, 48, 44, 123, 48, 125, 125 >>

\* a record shorter than a timestamp.  {12}  (4 bytes)
GarbageShort ==
    << 123, 49, 50, 125 >>

\* a record whose comment does not start with a quote.  {20221212000000,N,{0},1,1,1,1,1,I,a,1,{0},"",1,1,1,1,0,{0}}  (59 bytes)
GarbageComment ==
    << 123, 50, 48, 50, 50, 49, 50, 49, 50, 48, 48, 48, 48, 48, 48, 44, 78,
       44, 123, 48, 125, 44, 49, 44, 49, 44, 49, 44, 49, 44, 49, 44, 73, 44,
       97, 44, 49, 44, 123, 48, 125, 44, 34, 34, 44, 49, 44, 49, 44, 49, 44,
       49, 44, 48, 44, 123, 48, 125, 125 >>


\* well-formed objects: raw, quoted and nested fields, CR+LF between fields
\* {}  (2 bytes)
ObjEmpty ==
    << 123, 125 >>

\* {1,"N"}  (7 bytes)
ObjPair ==
    << 123, 49, 44, 34, 78, 34, 125 >>

\* {1,2,3,"123",{1,"N"}}  (21 bytes)
ObjNested ==
    << 123, 49, 44, 50, 44, 51, 44, 34, 49, 50, 51, 34, 44, 123, 49, 44, 34,
       78, 34, 125, 125 >>

\* {"a""b,}",{{}},\r\n2}  (19 bytes)
ObjQuotes ==
    << 123, 34, 97, 34, 34, 98, 44, 125, 34, 44, 123, 123, 125, 125, 44, 13,
       10, 50, 125 >>

\* {0,\r\n{"U"}\r\n}  (13 bytes)
ObjLines ==
    << 123, 48, 44, 13, 10, 123, 34, 85, 34, 125, 13, 10, 125 >>

\* unknown-tag dictionary records
\* {14,abc,1}  (10 bytes)
UnknownRaw ==
    << 123, 49, 52, 44, 97, 98, 99, 44, 49, 125 >>

\* {14,{2,"x",0},1}  (16 bytes)
UnknownNested ==
    << 123, 49, 52, 44, 123, 50, 44, 34, 120, 34, 44, 48, 125, 44, 49, 125
       >>

\* {99}  (4 bytes)
UnknownBare ==
    << 123, 57, 57, 125 >>

\* the uuid of the example record of the dictionary decoder's test
\* d303f30c-9e76-412f-95d2-3c3622e6b6e1  (36 bytes)
ExampleUuid ==
    << 100, 51, 48, 51, 102, 51, 48, 99, 45, 57, 101, 55, 54, 45, 52, 49,
       50, 102, 45, 57, 53, 100, 50, 45, 51, 99, 51, 54, 50, 50, 101, 54,
       98, 54, 101, 49 >>


Garbage == { GarbageText, GarbageMonth, GarbageStatus, GarbageShort, GarbageComment }

Objects == { ObjEmpty, ObjPair, ObjNested, ObjQuotes, ObjLines }

UnknownRecords == { UnknownRaw, UnknownNested, UnknownBare }

\* the decimal text of n
RECURSIVE Digits(_)
Digits(n) == IF n < 10 THEN << ZERO + n >> ELSE Digits(n \div 10) \o << ZERO + (n % 10) >>

\* a name as the log writer quotes it: every quote doubled, in quotes
RECURSIVE DoubleQuotes(_)
DoubleQuotes(s) ==
    IF s = <<>> THEN <<>>
    ELSE (IF Head(s) = QUOTE THEN << QUOTE, QUOTE >> ELSE << Head(s) >>)
         \o DoubleQuotes(Tail(s))

Quoted(s) == << QUOTE >> \o DoubleQuotes(s) \o << QUOTE >>

\* the names and the port the generated dictionary records carry
NamePlain == << 112, 99 >>
NameQuote == << 97, QUOTE, 98 >>
PortValue == 80

\* the text of a dictionary record with the given tag, name and index; the
\* records with a uuid carry ExampleUuid, those with a number PortValue
DictText(tag, name, index) ==
    << LBRACE >> \o Digits(tag) \o << COMMA >>
    \o (IF tag \in {1, 5, 9} THEN ExampleUuid \o << COMMA >> \o Quoted(name)
        ELSE IF tag \in {2, 3, 4, 6} THEN Quoted(name)
        ELSE IF tag \in {7, 8} THEN Digits(PortValue)
        ELSE IF tag = 10 THEN ObjPair \o << COMMA, ZERO >>
        ELSE IF tag \in {11, 12} THEN ObjPair
        ELSE Digits(PortValue))
    \o << COMMA >> \o Digits(index) \o << RBRACE >>

\* ------------------------------------------------------------------ bounds
\* the initial length of the driver's buffer (512 * 1024 in the code),
\* scaled so that one record of the inputs is longer than it
BufInit == 64
\* how many reads of one run may return fewer bytes than the source could
\* deliver into the region
MaxShortReads == 1

\* the longest content of the quoted fields of the direct calls of parse_str
MaxStr == 3

\* the longest run of digits of the parse_usize calls
MaxDigits == 3

\* the longest window of the parse_raw calls
MaxRaw == 3

\* the longest of the windows a cursor is moved over one operation at a time
MaxWin == 3

\* the largest count given to skip, next to one above the model's numbers
MaxSkip == 2

\* the longest table and the largest index of the direct calls of add_ref
MaxLen == 3
MaxNum == 5
\* how many records one References instance is fed, one at a time, and the
\* largest index in them
MaxRecords == 2
MaxRecIndex == 2

\* ------------------------------------------------------------------ state
VARIABLES
    kind,       \* "events": events::parse_file; "refs": References::parse_file
    chk,        \* the build has integer overflow checks (debug) or not (release)
    src,        \* the bytes of the file being read
    recs,       \* the well-formed records src is made of, in order
    fpos,       \* the reader's position in src
    buffer,     \* parse_file: buffer
    offset,     \* parse_file: offset
    len,        \* parse_file: len (filled length) of the last iteration
    read,       \* parse_file: read (parse_buffer's result) of the last iteration
    why,        \* the exit parse_buffer took in the last iteration
    shorts,     \* short reads so far
    emitted,    \* the events handed to the callback so far
    refs,       \* the References instance
    high,       \* per table, one past the highest index inserted so far
    pc,         \* "loop", "done" (parse_file returned), "panic" (aborted),
                \* "toobig" (an index above MaxIndex: not followed) or
                \* "idle" (no parse_file is running)
    call,       \* a direct call of one operation: its arguments
    result,     \* ... and its result
    ptr,        \* Parser: ptr, as the offset from source (position())
    consumed    \* the bytes the passes of parse_buffer reported consumed so far

vars ==
    << kind, chk, src, recs, fpos, buffer, offset, len, read, why, shorts,
       emitted, refs, high, pc, call, result, ptr, consumed >>

Zeros(n) == [i \in 1..n |-> 0]

NoCall == [op |-> "none"]

\* ------------------------------------------------------------------ drivers
\* the state of parse_file before its loop: the file opened, vec![0; N]
Init ==
    /\ kind \in {"events", "refs"}
    /\ chk \in BOOLEAN
    /\ recs \in (IF kind = "events" THEN EventSources ELSE DictSources)
    /\ src = Flatten(recs)
    /\ fpos = 0
    /\ buffer = Zeros(BufInit)
    /\ offset = 0
    /\ len = 0
    /\ read = 0
    /\ why = "none"
    /\ shorts = 0
    /\ emitted = <<>>
    /\ refs = EmptyRefs
    /\ high = [n \in DOMAIN EmptyRefs |-> 0]
    /\ pc = "loop"
    /\ call = NoCall
    /\ result = NoCall
    /\ ptr = 0
    /\ consumed = <<>>

\* reader.read(&mut buffer[offset..]): the numbers of bytes it may return
ReadSizes ==
    LET avail == Min(Len(buffer) - offset, Len(src) - fpos)
    IN  IF avail = 0 THEN {0}
        ELSE IF shorts < MaxShortReads THEN 1..avail
        ELSE {avail}

\* the buffer after reader.read wrote n bytes at offset
Filled(n) ==
    [i \in 1..Len(buffer) |->
        IF i > offset /\ i <= offset + n THEN src[fpos + (i - offset)] ELSE buffer[i]]

\* `for i in read..len { buffer[i - read] = buffer[i]; }`
Slide(buf, r, l) ==
    [i \in 1..Len(buf) |-> IF i <= l - r THEN buf[i + r] ELSE buf[i]]

\* `buffer.extend((0..buffer.len()).map(|_| 0))`
Grow(buf) == buf \o Zeros(Len(buf))

\* an iteration that, after a pass without progress, keeps the whole window
\* in front of the next read and leaves the buffer as long as it was
AfterPassWithoutGrowing(n, r) ==
    /\ fpos' = fpos + n
    /\ shorts' = IF n < Min(Len(buffer) - offset, Len(src) - fpos) THEN shorts + 1 ELSE shorts
    /\ len' = n + offset
    /\ read' = r.ret
    /\ why' = r.why
    /\ consumed' = consumed \o SubSeq(Filled(n), 1, r.ret)
    /\ pc' = pc
    /\ IF r.ret = 0
       THEN buffer' = Filled(n) /\ offset' = n + offset
       ELSE /\ buffer' = Slide(Filled(n), r.ret, n + offset)
            /\ offset' = (n + offset) - r.ret

\* the rest of one iteration of the loop of parse_file, after a read of
\* n > 0 bytes and a pass of parse_buffer that returned r
AfterPass(n, r) ==
    /\ fpos' = fpos + n
    /\ shorts' = IF n < Min(Len(buffer) - offset, Len(src) - fpos) THEN shorts + 1 ELSE shorts
    /\ len' = n + offset
    /\ read' = r.ret
    /\ why' = r.why
    /\ consumed' = (IF r.why \in {"Panic", "TooBig"} THEN consumed
                    ELSE consumed \o SubSeq(Filled(n), 1, r.ret))
    /\ IF r.why \in {"Panic", "TooBig"}
       THEN /\ pc' = (IF r.why = "Panic" THEN "panic" ELSE "toobig")
            /\ buffer' = Filled(n) /\ offset' = offset
       ELSE /\ pc' = pc
            /\ IF r.ret = 0
               THEN buffer' = Grow(Filled(n)) /\ offset' = offset
               ELSE /\ buffer' = Slide(Filled(n), r.ret, n + offset)
                    /\ offset' = (n + offset) - r.ret

\* `if len == 0 { break; }`
Break ==
    /\ pc' = "done"
    /\ UNCHANGED << fpos, buffer, offset, len, read, why, shorts, emitted, refs, consumed >>

\* one iteration of the loop of events::parse_file
EventsParseFile ==
    /\ pc = "loop" /\ kind = "events"
    /\ \E n \in ReadSizes :
        IF n = 0 THEN Break
        ELSE \E r \in {ParseBuffer(chk, SubSeq(Filled(n), 1, n + offset))} :
                 /\ AfterPass(n, r)
                 /\ emitted' = emitted \o r.events
                 /\ refs' = refs
    /\ UNCHANGED << kind, chk, src, recs, high, call, result, ptr >>

\* one iteration of the loop of References::parse_file
RefsParseFile ==
    /\ pc = "loop" /\ kind = "refs"
    /\ \E n \in ReadSizes :
        IF n = 0 THEN Break
        ELSE \E r \in {RefsParseBuffer(chk, refs, SubSeq(Filled(n), 1, n + offset))} :
                 /\ AfterPass(n, r)
                 /\ refs' = r.refs
                 /\ emitted' = emitted
    /\ UNCHANGED << kind, chk, src, recs, high, call, result, ptr >>

Next == EventsParseFile \/ RefsParseFile

Spec == Init /\ [][Next]_vars

\* What one iteration of the loop of parse_file does to the reader and to
\* the control state: it leaves the loop (break, or the process aborts) or
\* it has read at least one byte.  Every step of Next is such a step, and
\* one is possible whenever the loop is running.
Iterate ==
    /\ pc = "loop"
    /\ pc' \in { "loop", "done", "panic", "toobig" }
    /\ fpos' \in fpos..Len(src)
    /\ (pc' # "loop" \/ fpos' > fpos)

\* parse_file runs to its end: the loop is sequential code, so an iteration
\* that can be taken is taken
SpecLive == Init /\ [][Next]_vars /\ WF_<< pc, fpos >>(Iterate)

\* ------------------------------------------------------------------ files with a line that is not a record
\* sources in which one record is not decodable: an unknown transaction
\* status, month 13, or plain text
DirtyEventSources ==
    { << GarbageStatus, EvA >>, << EvA, GarbageStatus >>, << EvA, GarbageMonth, EvC >> }

DirtyDictSources == { << DictComputer, GarbageText, DictPort >> }

\* parse_file on such a file
InitDirty ==
    /\ kind \in {"events", "refs"}
    /\ chk \in BOOLEAN
    /\ recs \in (IF kind = "events" THEN DirtyEventSources ELSE DirtyDictSources)
    /\ src = Flatten(recs)
    /\ fpos = 0
    /\ buffer = Zeros(BufInit)
    /\ offset = 0
    /\ len = 0
    /\ read = 0
    /\ why = "none"
    /\ shorts = 0
    /\ emitted = <<>>
    /\ refs = EmptyRefs
    /\ high = [n \in DOMAIN EmptyRefs |-> 0]
    /\ pc = "loop"
    /\ call = NoCall
    /\ result = NoCall
    /\ ptr = 0
    /\ consumed = <<>>

SpecDirty == InitDirty /\ [][Next]_vars

\* ------------------------------------------------------------------ direct calls
\* A second system: one operation called directly on arguments drawn from
\* the sets below; call holds the arguments, result the outcome.

\* a window holding a well-formed record, a line that is not one, and a
\* second well-formed record, each on its own line
ResyncWindow(first, garbage, second) ==
    first \o Sep \o garbage \o << CR, LF >> \o second

ResyncCalls ==
    { [op |-> "parse_buffer", shape |-> "resync", first |-> r1, garbage |-> g,
       second |-> r2, b |-> ResyncWindow(r1, g, r2)] :
        r1 \in {EvA, EvB}, g \in Garbage, r2 \in {EvC} }

\* the start of EvB, whose transaction data follows a CR LF, with a log
\* level that is none of E, I, N, W, cut inside the comment
GarbageLevel == [SubSeq(EvB, 1, 40) EXCEPT ![37] = 88]

\* windows whose last record attempt fails with InvalidFormat (month 13, an
\* unknown transaction status, an unknown log level) and holds no CR after
\* the failure: after no, one or two well-formed records, and followed by
\* nothing or by bytes without a CR
NoCRCalls ==
    { [op |-> "parse_buffer", shape |-> "nocr", records |-> rs, garbage |-> g,
       before |-> (IF rs = <<>> THEN 0 ELSE Len(Flatten(rs)) - Len(Sep)),
       b |-> Flatten(rs) \o g \o tail] :
        rs \in { <<>>, << EvA >>, << EvB >>, << EvA, EvB >> },
        g \in { GarbageMonth, GarbageStatus, GarbageLevel },
        tail \in { <<>>, << COMMA, LF, LBRACE, 50, 48 >> } }

\* a window that ends anywhere inside two well-formed records
CutCalls ==
    { [op |-> "parse_buffer", shape |-> "cut", first |-> EvA, garbage |-> <<>>,
       second |-> EvB, b |-> SubSeq(Flatten(<< EvA, EvB >>), 1, n)] :
        n \in 0..Len(Flatten(<< EvA, EvB >>)) }

\* a window holding a record with an unknown tag and then a known record
UnknownCalls ==
    { [op |-> "refs_parse_buffer", unknown |-> u, second |-> r,
       b |-> u \o Sep \o r] :
        u \in UnknownRecords, r \in {DictComputer, DictPort} }

RECURSIVE SeqsUpTo(_, _)
SeqsUpTo(S, n) ==
    IF n = 0 THEN { <<>> }
    ELSE SeqsUpTo(S, n - 1)
         \cup { Append(s, x) : s \in { q \in SeqsUpTo(S, n - 1) : Len(q) = n - 1 }, x \in S }

\* add_ref on tables of numbers whose default is 0
AddRefCalls ==
    { [op |-> "add_ref", vec |-> v, value |-> 7, num |-> k] :
        v \in SeqsUpTo({1, 2}, MaxLen), k \in 0..MaxNum }

\* an object after some bytes that are not `{`, before its terminator and
\* the bytes that follow it
ObjectWindow(pre, obj, crlf, term) ==
    pre \o obj \o (IF crlf THEN << CR, LF >> ELSE <<>>) \o << term, SPACE, 51 >>

ObjectCalls ==
    { [op |-> "parse_object", pre |-> pre, obj |-> o, crlf |-> c, term |-> t,
       b |-> ObjectWindow(pre, o, c, t)] :
        pre \in { <<>>, << SPACE, SPACE, SPACE >> }, o \in Objects,
        c \in BOOLEAN, t \in { COMMA, RBRACE } }

\* the window of test_parse_object_2: `   {1,2,3,"123",{1,"N"}}, 321`
TestParseObject2 ==
    << 32, 32, 32, 123, 49, 44, 50, 44, 51, 44, 34, 49, 50, 51, 34, 44, 123,
       49, 44, 34, 78, 34, 125, 125, 44, 32, 51, 50, 49 >>

ObjectExampleCalls ==
    { [op |-> "parse_object", pre |-> << SPACE, SPACE, SPACE >>, obj |-> ObjNested,
       crlf |-> FALSE, term |-> COMMA, b |-> TestParseObject2] }

\* the bytes the contents of the quoted fields are made of: a letter and
\* the three bytes the scan of parse_str looks for
StrAlphabet == { 97, QUOTE, COMMA, RBRACE }

\* the content of the field of test_parse_str_2: `123"45`
TestStr2Content == << 49, 50, 51, QUOTE, 52, 53 >>

\* a content as the log writer quotes it, its terminator and a byte after it
QuotedCalls ==
    { [op |-> "parse_str", shape |-> "quoted", content |-> s, term |-> t,
       b |-> Quoted(s) \o << t, SPACE >>] :
        s \in SeqsUpTo(StrAlphabet, MaxStr) \cup { TestStr2Content },
        t \in { COMMA, RBRACE } }

\* any bytes between two quotes, whether or not a writer produces them
RawQuotedCalls ==
    { [op |-> "parse_str", shape |-> "raw", content |-> s, term |-> COMMA,
       b |-> << QUOTE >> \o s \o << QUOTE, COMMA, SPACE >>] :
        s \in SeqsUpTo(StrAlphabet, MaxStr) }

\* a quoted field the window ends in
OpenCalls ==
    { [op |-> "parse_str", shape |-> "open", content |-> s, term |-> COMMA,
       b |-> Quoted(s)] : s \in SeqsUpTo({ 97, QUOTE }, MaxStr) }

\* an empty window and fields that do not start with a quote
NotQuotedCalls ==
    { [op |-> "parse_str", shape |-> "bad", content |-> <<>>, term |-> COMMA, b |-> w] :
        w \in { <<>>, << 97, QUOTE, COMMA >>, << 49, COMMA >>, << LBRACE, RBRACE, COMMA >> } }

StrCalls == QuotedCalls \cup RawQuotedCalls \cup OpenCalls \cup NotQuotedCalls

\* raw fields that are a hyphenated uuid before a terminator ("good"),
\* that are something else before a terminator ("bad": not hexadecimal, a
\* digit replaced by `g`, a digit missing, empty), and windows without a
\* terminator ("open")
UuidCalls ==
    { [op |-> "parse_uuid", shape |-> "good", b |-> ExampleUuid \o << t, SPACE >>] :
        t \in { COMMA, RBRACE } }
    \cup { [op |-> "parse_uuid", shape |-> "bad", b |-> w \o << COMMA, SPACE >>] :
            w \in { << 122, 122 >>, [ExampleUuid EXCEPT ![1] = 103],
                    SubSeq(ExampleUuid, 1, 35), <<>> } }
    \cup { [op |-> "parse_uuid", shape |-> "open", b |-> w] :
            w \in { ExampleUuid, <<>> } }

\* the runs of digits given to parse_usize: every run up to MaxDigits digits
\* over 0, 1 and 9, the number of test_parse_u32, and numbers around the
\* 16-bit limbs up to the largest the model holds
UsizeDigits ==
    (SeqsUpTo({ ZERO, ZERO + 1, ZERO + 9 }, MaxDigits) \ { <<>> })
    \cup { Digits(n) : n \in { 12345, 65535, 65536, 655360, 2147483647 } }

\* parse_usize on the digits followed by a terminator, and on the digits alone
UsizeCalls ==
    { [op |-> "parse_usize", shape |-> "closed", digits |-> d, b |-> d \o << x, ZERO + 7 >>] :
        d \in UsizeDigits, x \in { COMMA, RBRACE } }
    \cup { [op |-> "parse_usize", shape |-> "open", digits |-> d, b |-> d] : d \in UsizeDigits }

\* the windows of test_parse_raw and test_parse_none
TestRaw == Digits(12345) \o << COMMA >>
TestNone == Digits(1111) \o << COMMA >> \o Digits(12345)

\* skip(count) then parse_raw: every window up to MaxRaw bytes over a, `,`
\* and `}` from every cursor, and the two windows of the tests
RawCalls ==
    { [op |-> "parse_raw", b |-> w, count |-> n] :
        w \in SeqsUpTo({ 97, COMMA, RBRACE }, MaxRaw), n \in 0..MaxRaw }
    \cup { [op |-> "parse_raw", b |-> TestRaw, count |-> 0],
           [op |-> "parse_raw", b |-> TestNone, count |-> 5] }

\* the dictionaries of the lookups: one or two records for the users, the
\* computers or the ports table, at any index
LookupInputs ==
    { [tag |-> g, name |-> NamePlain, index |-> i] : g \in {1, 2, 7}, i \in 0..MaxRecIndex }

LookupDicts == { << x >> : x \in LookupInputs } \cup (LookupInputs \X LookupInputs)

\* an accessor of an event whose id fields all hold id, on the tables decoded
\* from a dictionary
LookupCalls ==
    { [op |-> "lookup", dict |-> d, table |-> tb, id |-> i] :
        d \in LookupDicts, tb \in DOMAIN EmptyRefs, i \in 0..(MaxRecIndex + 1) }

\* a window that ends anywhere inside two or three dictionary records
DictCutCalls ==
    { [op |-> "refs_cut", records |-> rs, n |-> n, b |-> SubSeq(Flatten(rs), 1, n)] :
        rs \in { << DictUser, DictComputer >>, << DictPort, DictUser, DictPort >> },
        n \in 0..(Len(DictUser) + Len(DictComputer) + 2 * Len(Sep)) }

Calls ==
    ResyncCalls \cup CutCalls \cup NoCRCalls \cup UnknownCalls \cup AddRefCalls \cup ObjectCalls
    \cup ObjectExampleCalls \cup StrCalls \cup UuidCalls
    \cup LookupCalls \cup UsizeCalls \cup RawCalls \cup DictCutCalls

InitFn ==
    /\ kind = "fn"
    /\ chk \in BOOLEAN
    /\ recs = <<>>
    /\ src = <<>>
    /\ fpos = 0
    /\ buffer = <<>>
    /\ offset = 0
    /\ len = 0
    /\ read = 0
    /\ why = "none"
    /\ shorts = 0
    /\ emitted = <<>>
    /\ refs = EmptyRefs
    /\ high = [n \in DOMAIN EmptyRefs |-> 0]
    /\ pc = "idle"
    /\ call \in Calls
    /\ result = NoCall
    /\ ptr = 0
    /\ consumed = <<>>

Returned(r) ==
    /\ result' = r
    /\ UNCHANGED << kind, chk, src, recs, fpos, buffer, offset, len, read, why,
                    shorts, emitted, refs, high, pc, call, ptr, consumed >>

\* events::parse_buffer(call.b, action)
CallParseBuffer ==
    /\ call.op = "parse_buffer" /\ result = NoCall
    /\ \E r \in {ParseBuffer(chk, call.b)} :
        Returned([op |-> "parse_buffer", ret |-> r.ret, events |-> r.events,
                  why |-> r.why])

\* References::default().parse_buffer(call.b)
CallRefsParseBuffer ==
    /\ call.op = "refs_parse_buffer" /\ result = NoCall
    /\ \E r \in {RefsParseBuffer(chk, EmptyRefs, call.b)} :
        Returned([op |-> "refs_parse_buffer", ret |-> r.ret, refs |-> r.refs,
                  why |-> r.why])

\* add_ref(&mut call.vec, call.value, call.num)
CallAddRef ==
    /\ call.op = "add_ref" /\ result = NoCall
    /\ Returned([op |-> "add_ref",
                 vec |-> add_ref(call.vec, call.value, call.num, DefaultPort)])

\* Parser::new(call.b).parse_object()
CallParseObject ==
    /\ call.op = "parse_object" /\ result = NoCall
    /\ \E r \in {ParseObject(call.b, 0)} :
        Returned([op |-> "parse_object", st |-> r.st, pos |-> r.pos,
                  val |-> r.val])

\* Parser::new(call.b).parse_str(), and str() of the LogStr it returns
CallParseStr ==
    /\ call.op = "parse_str" /\ result = NoCall
    /\ \E r \in {ParseStr(call.b, 0)} :
        Returned([op |-> "parse_str", st |-> r.st, pos |-> r.pos,
                  s |-> IF r.st = "Ok" THEN r.val.s ELSE <<>>,
                  need_replace_quotes |-> IF r.st = "Ok" THEN r.val.need_replace_quotes
                                          ELSE FALSE,
                  str |-> IF r.st = "Ok" THEN Str(r.val) ELSE <<>>])

\* Parser::new(call.b).parse_uuid()
CallParseUuid ==
    /\ call.op = "parse_uuid" /\ result = NoCall
    /\ \E r \in {ParseUuid(call.b, 0)} :
        Returned([op |-> "parse_uuid", st |-> r.st, pos |-> r.pos,
                  val |-> IF r.st = "Ok" THEN UuidValue(r.val) ELSE <<>>])

\* the id fields of an Event, all holding id
EventWithId(id) ==
    [user_id |-> id, computer_id |-> id, application_id |-> id, event_id |-> id,
     metadata_id |-> id, worker_server_id |-> id, port_id |-> id, sync_port_id |-> id]

\* References::default().parse_buffer(the dictionary), then the accessor of
\* call.table on an event with the id call.id
CallLookup ==
    /\ call.op = "lookup" /\ result = NoCall
    /\ \E r \in {RefsParseBuffer(chk, EmptyRefs,
                    Flatten([i \in 1..Len(call.dict) |->
                        DictText(call.dict[i].tag, call.dict[i].name, call.dict[i].index)]))} :
        \E got \in {Resolve(EventWithId(call.id), r.refs, call.table)} :
            Returned([op |-> "lookup", some |-> got.some, val |-> got.val])

\* Parser::new(call.b).parse_usize()
CallParseUsize ==
    /\ call.op = "parse_usize" /\ result = NoCall
    /\ \E r \in {ParseUsize(chk, call.b, 0)} :
        Returned([op |-> "parse_usize", st |-> r.st, pos |-> r.pos, val |-> r.val])

\* Parser::new(call.b), skip(call.count) with its result dropped as in
\* test_parse_none, parse_raw()
CallParseRaw ==
    /\ call.op = "parse_raw" /\ result = NoCall
    /\ \E s \in {Skip(call.b, 0, call.count)} :
        \E r \in {ParseRaw(call.b, s.pos)} :
            Returned([op |-> "parse_raw", st |-> r.st, pos |-> r.pos, val |-> r.val])

\* References::default().parse_buffer(call.b) on a window cut at call.n
CallRefsCut ==
    /\ call.op = "refs_cut" /\ result = NoCall
    /\ \E r \in {RefsParseBuffer(chk, EmptyRefs, call.b)} :
        Returned([op |-> "refs_cut", ret |-> r.ret, refs |-> r.refs, why |-> r.why])

NextFn ==
    \/ CallParseBuffer \/ CallRefsParseBuffer \/ CallAddRef \/ CallParseObject
    \/ CallParseStr \/ CallParseUuid \/ CallLookup
    \/ CallParseUsize \/ CallParseRaw \/ CallRefsCut

SpecFn == InitFn /\ [][NextFn]_vars

\* ------------------------------------------------------------------ a dictionary, record by record
\* A third system: one References instance decodes up to MaxRecords
\* dictionary records, one call of parser_record each; high follows the
\* indices the records carried.

\* the table a tag designates (spec.md, section 4.4)
TableOf(tag) ==
    CASE tag = 1 -> "users"
      [] tag = 2 -> "computers"
      [] tag = 3 -> "applications"
      [] tag = 4 -> "events"
      [] tag = 5 -> "metadata"
      [] tag = 6 -> "worker_servers"
      [] tag = 7 -> "ports"
      [] tag = 8 -> "sync_ports"

\* the records fed: one table of each payload shape (users: uuid and name,
\* computers: name, ports: number) gets every name and index, every other
\* tag, the unknown tag 14 included, one record
DictInputs ==
    { [tag |-> t, name |-> n, index |-> i] :
        t \in {1, 2, 7}, n \in {NamePlain, NameQuote}, i \in 0..MaxRecIndex }
    \cup { [tag |-> t, name |-> NameQuote, index |-> 1] : t \in 3..14 }

InitRefs ==
    /\ kind = "records"
    /\ chk \in BOOLEAN
    /\ recs = <<>>
    /\ src = <<>>
    /\ fpos = 0
    /\ buffer = <<>>
    /\ offset = 0
    /\ len = 0
    /\ read = 0
    /\ why = "none"
    /\ shorts = 0
    /\ emitted = <<>>
    /\ refs = EmptyRefs
    /\ high = [n \in DOMAIN EmptyRefs |-> 0]
    /\ pc = "idle"
    /\ call = [op |-> "parser_record", count |-> 0]
    /\ result = NoCall
    /\ ptr = 0
    /\ consumed = <<>>

\* self.parser_record(&mut Parser::new(text)) on the text of one record
DecodeRecord ==
    /\ call.op = "parser_record" /\ call.count < MaxRecords
    /\ \E in \in DictInputs :
        \E r \in {ParserRecord(chk, refs, DictText(in.tag, in.name, in.index), 0)} :
            /\ refs' = (IF r.st = "Ok" THEN r.val ELSE refs)
            /\ high' = (IF r.st = "Ok" /\ in.tag \in 1..8
                        THEN [high EXCEPT ![TableOf(in.tag)] = Max(@, in.index + 1)]
                        ELSE high)
            /\ result' = [op |-> "parser_record", tag |-> in.tag, name |-> in.name,
                          index |-> in.index, st |-> r.st]
    /\ call' = [call EXCEPT !.count = @ + 1]
    /\ UNCHANGED << kind, chk, src, recs, fpos, buffer, offset, len, read, why,
                    shorts, emitted, pc, ptr, consumed >>

NextRefs == DecodeRecord

SpecRefs == InitRefs /\ [][NextRefs]_vars

\* ------------------------------------------------------------------ a cursor, operation by operation
\* the bytes the operations tell apart, and a digit
CursorAlphabet == { QUOTE, COMMA, LBRACE, RBRACE, CR, ZERO + 1 }

\* every window up to MaxWin bytes, and the windows of the tests
CursorWindows ==
    SeqsUpTo(CursorAlphabet, MaxWin)
    \cup { TestParseObject2, TestNone, Quoted(TestStr2Content) \o << RBRACE >> }

\* Parser::skip(count) for any usize.  `self.ptr.add(count)` is computed in
\* the 64-bit address space: a count of the model's range is added as it is;
\* one above it (Huge) lands past `end` and fails, or, when it is 2^64 - k,
\* wraps to k bytes before ptr, which is not `> self.end`, so the skip
\* succeeds backwards, as far as one byte before source; a build with
\* checked pointer arithmetic aborts instead of wrapping.
SkipOutcomes(build, b, p, count) ==
    IF count # Huge THEN { Skip(b, p, count) }
    ELSE { Fail("End", p) }
         \cup { Ok(p - k, <<>>) : k \in 1..(p + 1) }
         \cup (IF build THEN { Fail("Panic", p) } ELSE {})

\* Parser::new(window)
InitCursor ==
    /\ kind = "cursor"
    /\ chk \in BOOLEAN
    /\ recs = <<>>
    /\ src = <<>>
    /\ fpos = 0
    /\ buffer = <<>>
    /\ offset = 0
    /\ len = 0
    /\ read = 0
    /\ why = "none"
    /\ shorts = 0
    /\ emitted = <<>>
    /\ refs = EmptyRefs
    /\ high = [n \in DOMAIN EmptyRefs |-> 0]
    /\ pc = "idle"
    /\ call \in { [op |-> "cursor", b |-> w] : w \in CursorWindows }
    /\ result = [op |-> "new", st |-> "Ok", from |-> 0, arg |-> 0]
    /\ ptr = 0
    /\ consumed = <<>>

\* the parser can be used: the process has not aborted and ptr is in the
\* window
Usable == pc = "idle" /\ ptr >= 0

\* an operation, called at ptr with the argument arg, ended as r
Moved(name, arg, r) ==
    /\ ptr' = r.pos
    /\ result' = [op |-> name, st |-> r.st, from |-> ptr, arg |-> arg]
    /\ pc' = (IF r.st = "Panic" THEN "panic" ELSE pc)
    /\ UNCHANGED << kind, chk, src, recs, fpos, buffer, offset, len, read, why,
                    shorts, emitted, refs, high, call, consumed >>

CursorNext == Usable /\ Moved("next", 0, PNext(call.b, ptr))

CursorPeek == Usable /\ Moved("peek", 0, Peek(call.b, ptr))

CursorCurrent == Usable /\ Moved("current", 0, Current(call.b, ptr))

CursorSkip ==
    /\ Usable
    /\ \E count \in 0..MaxSkip \cup { Huge } :
        \E r \in SkipOutcomes(chk, call.b, ptr, count) : Moved("skip", count, r)

CursorSkipTo ==
    /\ Usable
    /\ \E ch \in CursorAlphabet : Moved("skip_to", ch, SkipTo(call.b, ptr, ch))

CursorSkipTo2 ==
    /\ Usable
    /\ \E ch \in { << COMMA, RBRACE >>, << RBRACE, COMMA >>, << QUOTE, CR >> } :
        Moved("skip_to2", ch, SkipTo2(call.b, ptr, ch[1], ch[2]))

CursorParseUsize == Usable /\ Moved("parse_usize", 0, ParseUsize(chk, call.b, ptr))

CursorParseRaw == Usable /\ Moved("parse_raw", 0, ParseRaw(call.b, ptr))

CursorParseUuid == Usable /\ Moved("parse_uuid", 0, ParseUuid(call.b, ptr))

CursorParseStr == Usable /\ Moved("parse_str", 0, ParseStr(call.b, ptr))

CursorParseObject == Usable /\ Moved("parse_object", 0, ParseObject(call.b, ptr))

NextCursor ==
    \/ CursorNext \/ CursorPeek \/ CursorCurrent
    \/ CursorSkip \/ CursorSkipTo \/ CursorSkipTo2
    \/ CursorParseUsize \/ CursorParseRaw \/ CursorParseUuid
    \/ CursorParseStr \/ CursorParseObject

SpecCursor == InitCursor /\ [][NextCursor]_vars

\* ------------------------------------------------------------------ properties
\* the events of a source of well-formed records: each record decoded on
\* its own
ExpectedEvents(build, records) ==
    [i \in 1..Len(records) |-> ParseRecord(build, records[i], 0).val]

\* C1: a source no longer than the buffer, delivered in one read or split
\* anywhere into two reads, hands the callback the same events: those of
\* one pass of parse_buffer over the whole input.
C1_SplitEquivalence ==
    (kind = "events" /\ pc \in {"done", "panic"} /\ Len(src) <= BufInit)
        => emitted = ParseBuffer(chk, src).events

\* C2: after a pass that made no progress over a full buffer (one record
\* is longer than the buffer) the buffer is doubled and the bytes already
\* read stay in front of the next read: the next read starts at len.
C2_GrowRetains ==
    (pc = "loop" /\ why = "End" /\ read = 0 /\ len > 0 /\ Len(buffer) = 2 * len)
        => offset = len

\* C3: over a window holding a well-formed record, a line that is not a
\* record, a CR and a second well-formed record, parse_buffer hands the
\* callback exactly the two well-formed records, in order.
C3_Resync ==
    (call.op = "parse_buffer" /\ call.shape = "resync" /\ result.op = "parse_buffer")
        => result.events = ExpectedEvents(chk, << call.first, call.second >>)

\* C4: when parse_file returns on a source of well-formed records, the
\* callback has been invoked exactly once per record, in source order.
C4_ExactlyOnce ==
    (kind = "events" /\ pc = "done") => emitted = ExpectedEvents(chk, recs)

\* C5: a pass that ran out of input inside a record returns the position
\* where that record attempt began, and the leftover kept for the next fill
\* is the window from that position on, so the retry sees the whole record.
C5_EndOfInputRetry ==
    [][(kind = "events" /\ pc = "loop" /\ pc' = "loop" /\ why' = "End")
        => SubSeq(buffer', 1, offset')
             = SubSeq(Filled(len' - offset), read' + 1, len')]_vars

\* C6: add_ref of value v at index k into a table of length L gives, when
\* L <= k, a table of length k+1 with [0, L) unchanged, the default in
\* [L, k) and v at k; when k < L, a table of length L with v at k and every
\* other index unchanged.
C6_DenseInsert ==
    (call.op = "add_ref" /\ result.op = "add_ref") =>
        LET L == Len(call.vec)
            k == call.num
            out == result.vec
        IN  IF L <= k
            THEN /\ Len(out) = k + 1
                 /\ \A i \in 1..L : out[i] = call.vec[i]
                 /\ \A i \in (L + 1)..k : out[i] = DefaultPort
                 /\ out[k + 1] = call.value
            ELSE /\ Len(out) = L
                 /\ out[k + 1] = call.value
                 /\ \A i \in (1..L) \ {k + 1} : out[i] = call.vec[i]

\* C6: an insertion two past the end of a table of two elements
C6_Padded ==
    call.op = "add_ref" /\ result.op = "add_ref" /\ Len(call.vec) = 2 /\ call.num = 4

\* C7: after any sequence of dictionary records, every table's length is
\* one past the highest index inserted into it (0 if none), and no table's
\* length decreases from one step to the next.
C7_TableLength ==
    /\ [](\A table \in DOMAIN refs : Len(refs[table]) = high[table])
    /\ [][\A table \in DOMAIN refs : Len(refs'[table]) >= Len(refs[table])]_vars

\* C7: a second record overwrote index 0 of a users table of length 3
C7_Overwritten ==
    /\ call.op = "parser_record" /\ call.count = 2
    /\ result.op = "parser_record" /\ result.tag = 1 /\ result.index = 0
    /\ Len(refs.users) = 3

\* the dense insertion rule of spec.md, section 3
DenseInsert(vec, value, k, default) ==
    [i \in 1..Max(Len(vec), k + 1) |->
        IF i = k + 1 THEN value ELSE IF i <= Len(vec) THEN vec[i] ELSE default]

\* the id the generated records carry: the digits of ExampleUuid
ExampleId ==
    << 100, 51, 48, 51, 102, 51, 48, 99, 57, 101, 55, 54, 52, 49, 50, 102,
       57, 53, 100, 50, 51, 99, 51, 54, 50, 50, 101, 54, 98, 54, 101, 49 >>

\* the value a generated record of the given tag and name carries
PayloadOf(tag, name) ==
    IF tag \in {1, 5} THEN [id |-> ExampleId, name |-> name]
    ELSE IF tag \in {7, 8} THEN PortValue
    ELSE name

\* C8: a record with tag t in 1..8 and index n applies the dense insertion
\* at n, with the decoded payload, to the table t designates and leaves
\* every other table unchanged; a tag-1 record with index 1 decoded into
\* empty tables gives a users table of the default User and the decoded one.
C8_TagDispatch ==
    [][(result'.op = "parser_record" /\ result'.tag \in 1..8) =>
        /\ refs' = [refs EXCEPT ![TableOf(result'.tag)] =
                        DenseInsert(@, PayloadOf(result'.tag, result'.name),
                                    result'.index, DefaultOf(TableOf(result'.tag)))]
        /\ (refs = EmptyRefs /\ result'.tag = 1 /\ result'.index = 1) =>
              refs'.users = << DefaultUser, [id |-> ExampleId, name |-> result'.name] >>
       ]_vars

\* C8: the tag-1 record with index 1 was decoded into empty tables
C8_ExampleDecoded ==
    /\ call.op = "parser_record" /\ call.count = 1
    /\ result.op = "parser_record" /\ result.tag = 1 /\ result.index = 1
    /\ Len(refs.users) = 2

\* C9: a record with an unknown tag changes no table, and the record
\* decoded after it is the next top-level record: the tables after the
\* window are those after the known record alone.
C9_UnknownSkipped ==
    (call.op = "refs_parse_buffer" /\ result.op = "refs_parse_buffer")
        => result.refs = RefsParseBuffer(chk, EmptyRefs, call.second).refs

\* C10: parse_object returns exactly the bytes of the object, from its
\* opening brace to its matching closing brace.
C10_ExactRange ==
    (call.op = "parse_object" /\ result.op = "parse_object")
        => (result.st = "Ok" /\ result.val = call.obj)

\* C11: after a successful parse_object the cursor is one byte past the
\* single `,` or `}` that follows the object's closing brace (after an
\* optional CR+LF) and nothing beyond it is consumed; for the window
\* `   {1,2,3,"123",{1,"N"}}, 321` it is just after the comma.
C11_CursorAfterObject ==
    (call.op = "parse_object" /\ result.op = "parse_object" /\ result.st = "Ok") =>
        /\ result.pos = Len(call.pre) + Len(call.obj) + (IF call.crlf THEN 2 ELSE 0) + 1
        /\ call.b[result.pos] = call.term
        /\ (call.b = TestParseObject2 => result.pos = 25)

\* C11: parse_object succeeded on the window of test_parse_object_2
C11_ExampleParsed ==
    call.op = "parse_object" /\ result.op = "parse_object" /\ result.st = "Ok"
        /\ call.b = TestParseObject2

\* the first quote at or after index i that is followed by `,` or `}`
\* (0: none)
RECURSIVE FirstClosingQuote(_, _)
FirstClosingQuote(b, i) ==
    IF i >= Len(b) THEN 0
    ELSE IF b[i] = QUOTE /\ b[i + 1] \in { COMMA, RBRACE } THEN i
    ELSE FirstClosingQuote(b, i + 1)

InSeq(x, s) == \E i \in 1..Len(s) : s[i] = x

\* C12 (as stated): for a quoted field whose content holds doubled quotes,
\* parse_str and str() return the bytes between the opening quote and the
\* first quote followed by `,` or `}`, each doubled quote collapsed to one,
\* and leave the cursor just past the terminator after that quote.
C12_FirstQuoteTerminates ==
    (call.op = "parse_str" /\ call.shape = "quoted" /\ InSeq(QUOTE, call.content)
        /\ result.op = "parse_str") =>
        /\ result.st = "Ok"
        /\ result.str = ReplaceQuotes(SubSeq(call.b, 2, FirstClosingQuote(call.b, 2) - 1), 1)
        /\ result.pos = FirstClosingQuote(call.b, 2) + 1

\* C12 (amended): for a quoted field whose content holds doubled quotes,
\* parse_str and str() return the content the field was written from (the
\* terminating quote is the first quote that is not half of a doubled pair
\* and is followed by `,` or `}`), each doubled quote collapsed to one, and
\* leave the cursor just past the terminator; `"123""45"}` gives `123"45`.
C12_Unescaped ==
    (call.op = "parse_str" /\ call.shape = "quoted" /\ InSeq(QUOTE, call.content)
        /\ result.op = "parse_str") =>
        /\ result.st = "Ok"
        /\ result.str = call.content
        /\ result.pos = Len(call.content) + Cardinality({ i \in 1..Len(call.content) :
                                                            call.content[i] = QUOTE }) + 3
        /\ call.b[result.pos] = call.term

\* C12: the field of test_parse_str_2 was decoded
C12_ExampleDecoded ==
    call.op = "parse_str" /\ call.shape = "quoted" /\ call.content = TestStr2Content
        /\ call.term = RBRACE /\ result.op = "parse_str" /\ result.st = "Ok"

HasDoubled(s) == \E i \in 1..(Len(s) - 1) : s[i] = QUOTE /\ s[i + 1] = QUOTE

\* C13: need_replace_quotes is set if and only if the scanned content
\* holds a doubled quote; when it is not set str() is the scanned content,
\* which for a written field is the content itself; and the replacement
\* leaves a text without doubled quotes unchanged.
C13_FlagIffDoubled ==
    (call.op = "parse_str" /\ result.op = "parse_str" /\ result.st = "Ok") =>
        /\ result.need_replace_quotes = HasDoubled(result.s)
        /\ ~result.need_replace_quotes => result.str = result.s
        /\ (call.shape = "quoted" /\ ~InSeq(QUOTE, call.content)) =>
              (~result.need_replace_quotes /\ result.str = call.content)
        /\ ~HasDoubled(result.s) => ReplaceQuotes(result.s, 1) = result.s

\* C13: a field without quotes in its content was decoded, flag not set
C13_PlainDecoded ==
    call.op = "parse_str" /\ call.shape = "quoted" /\ call.content = << 97, COMMA >>
        /\ result.op = "parse_str" /\ result.st = "Ok" /\ ~result.need_replace_quotes

\* C14: parse_str on a field whose first byte is not a quote returns the
\* InvalidFormat error, and on an empty window EndOfInput.
C14_StrErrors ==
    (call.op = "parse_str" /\ call.shape = "bad" /\ result.op = "parse_str") =>
        result.st = (IF call.b = <<>> THEN "End" ELSE "Invalid")

\* C15: parse_uuid returns the uuid when the raw field before the next
\* `,` or `}` is 36 well-formed hyphenated hexadecimal characters, the
\* InvalidFormat error for any other raw field, and EndOfInput when no
\* terminator remains in the window.
C15_UuidErrors ==
    (call.op = "parse_uuid" /\ result.op = "parse_uuid") =>
        /\ result.st = (IF call.shape = "good" THEN "Ok"
                        ELSE IF call.shape = "bad" THEN "Invalid"
                        ELSE "End")
        /\ call.shape = "good" => result.val = ExampleId

\* C16: whatever bytes a pass of the event decoder or of the dictionary
\* decoder is given, every decoding step ends with a value, EndOfInput or
\* InvalidFormat: no pass aborts the process.
C16_NoAbort ==
    (result.op \in { "parse_buffer", "refs_parse_buffer" }) => result.why # "Panic"

\* C17: on a finite source parse_file eventually returns, and it stops
\* only at the read that reports 0 bytes: every run of events::parse_file
\* reaches the return after the loop.
C17_Returns == <>(kind # "events" \/ pc = "done")

\* the indices the records of a dictionary insert into a table
Populated(dict, table) ==
    { dict[i].index : i \in { j \in 1..Len(dict) : TableOf(dict[j].tag) = table } }

\* C18: resolving an event's id against a table gives the absent result
\* when the id is at or past the table's length and when it is inside the
\* table at an index no record populated; it gives an entry only at a
\* populated index.
C18_AbsentLookup ==
    (call.op = "lookup" /\ result.op = "lookup") =>
        (result.some <=> call.id \in Populated(call.dict, call.table))

\* the number a run of decimal digits writes, most significant digit first
RECURSIVE DecimalValue(_)
DecimalValue(d) ==
    IF d = <<>> THEN 0
    ELSE DecimalValue(SubSeq(d, 1, Len(d) - 1)) * 10 + (d[Len(d)] - ZERO)

\* C19: parse_usize on decimal digits followed by `,` or `}` returns the
\* decimal value of the digits with the cursor just past the terminator, and
\* on digits that the window ends after it returns EndOfInput.
C19_DecimalValue ==
    (call.op = "parse_usize" /\ result.op = "parse_usize") =>
        IF call.shape = "closed"
        THEN /\ result.st = "Ok"
             /\ result.val = DecimalValue(call.digits)
             /\ result.pos = Len(call.digits) + 1
             /\ call.b[result.pos] \in { COMMA, RBRACE }
        ELSE result.st = "End"

\* the number of test_parse_u32 was read
C19_ExampleRead ==
    /\ call.op = "parse_usize" /\ call.b = Digits(12345) \o << COMMA, ZERO + 7 >>
    /\ result.op = "parse_usize" /\ result.st = "Ok" /\ result.val = 12345 /\ result.pos = 6

\* the places after the cursor that hold a `,` or a `}`
Terminators(b, p) == { i \in (p + 1)..Len(b) : b[i] \in { COMMA, RBRACE } }

\* the first of them
FirstTerminator(b, p) ==
    CHOOSE i \in Terminators(b, p) : \A j \in Terminators(b, p) : i <= j

\* the cursor a parse_raw call starts at: past the skipped bytes, or the
\* start of the window when the skip would pass its end
CursorOf(c) == IF c.count <= Len(c.b) THEN c.count ELSE 0

\* C20: parse_raw returns the bytes from the cursor up to, and excluding,
\* the first `,` or `}`, with the cursor just past that terminator; when
\* neither byte occurs in the rest of the window it returns EndOfInput.
C20_RawField ==
    (call.op = "parse_raw" /\ result.op = "parse_raw") =>
        IF Terminators(call.b, CursorOf(call)) = {}
        THEN result.st = "End"
        ELSE /\ result.st = "Ok"
             /\ result.pos = FirstTerminator(call.b, CursorOf(call))
             /\ result.val = SubSeq(call.b, CursorOf(call) + 1, result.pos - 1)

\* test_parse_none: after skipping 5 bytes of `1111,12345` nothing is returned
C20_TestNone ==
    /\ call.op = "parse_raw" /\ call.b = TestNone /\ call.count = 5
    /\ result.op = "parse_raw" /\ result.st = "End"

\* C21: under any sequence of cursor operations the position stays between
\* the start and the end of the window and never decreases, and skip(n)
\* succeeds exactly when position + n <= end (a count above the model's
\* numbers is above every window's length).
C21_CursorInWindow ==
    /\ [](call.op = "cursor" =>
            /\ 0 <= ptr /\ ptr <= Len(call.b)
            /\ result.op = "skip" =>
                (result.st = "Ok" <=>
                    (result.arg # Huge /\ result.from + result.arg <= Len(call.b))))
    /\ [][call.op = "cursor" => ptr' >= ptr]_vars

\* C22: after a pass in which parse_buffer returned r > 0 over a filled
\* window of length len, the buffer holds at [0, len - r) the bytes that were
\* at [r, len), in order, offset is len - r, and the bytes consumed so far
\* followed by that leftover are the prefix of the source read so far.
C22_SlideKeepsPrefix ==
    /\ []((pc = "loop" /\ read > 0) =>
            /\ offset = len - read
            /\ consumed \o SubSeq(buffer, 1, offset) = SubSeq(src, 1, fpos))
    /\ [][(pc' = "loop" /\ read' > 0) =>
            SubSeq(buffer', 1, len' - read')
                = SubSeq(Filled(fpos' - fpos), read' + 1, len')]_vars

\* the window of the pass a step of parse_file made
PassWindow == SubSeq(Filled(len' - offset), 1, len')

\* C23: when a record attempt fails with InvalidFormat and no CR remains
\* after the failure, the pass stops with the position recorded before that
\* attempt, and the whole remainder of the window from that position on is
\* the leftover kept for the next fill; no callback is invoked for it.
C23_NoCRLeftover ==
    [][(kind = "events" /\ pc = "loop" /\ pc' = "loop" /\ why' = "NoCR") =>
        /\ read' = ParseBuffer(chk, PassWindow).ret
        /\ emitted' = emitted \o ParseBuffer(chk, PassWindow).events
        /\ SubSeq(buffer', 1, offset') = SubSeq(PassWindow, read' + 1, len')]_vars

\* the part of C23 about parse_buffer alone: over a window whose last record
\* attempt fails with InvalidFormat with no CR after the failure, it exits
\* through the arm of line 201 with the position recorded before that attempt
\* (just past the last well-formed record's closing brace), having handed
\* the callback the well-formed records only.
C23_NoCRStops ==
    (call.op = "parse_buffer" /\ call.shape = "nocr" /\ result.op = "parse_buffer") =>
        /\ result.why = "NoCR"
        /\ result.ret = call.before
        /\ result.events = ExpectedEvents(chk, call.records)

\* a pass stopped at an unknown log level after two records, one CR LF
\* inside the failing record before the failure
C23_StoppedAfterTwo ==
    /\ call.op = "parse_buffer" /\ call.shape = "nocr"
    /\ call.records = << EvA, EvB >> /\ call.garbage = GarbageLevel
    /\ result.op = "parse_buffer" /\ result.why = "NoCR"
    /\ result.ret = Len(EvA) + Len(Sep) + Len(EvB)
    /\ Len(result.events) = 2

\* what each dictionary record of the sources inserts: the table, the index
\* and the value, read off the record's text
InsertOf(record) ==
    IF record = DictUser
    THEN [table |-> "users", k |-> 1,
          value |-> [id |-> ExampleId, name |-> SubSeq(DictUser, 42, Len(DictUser) - 4)]]
    ELSE IF record = DictComputer
    THEN [table |-> "computers", k |-> 2,
          value |-> SubSeq(DictComputer, 5, Len(DictComputer) - 4)]
    ELSE IF record = DictLong
    THEN [table |-> "events", k |-> 0, value |-> SubSeq(DictLong, 5, Len(DictLong) - 4)]
    ELSE [table |-> "ports", k |-> 1, value |-> PortValue]

\* the tables after the first n of the records, each inserted once
RECURSIVE TablesAfter(_, _)
TablesAfter(records, n) ==
    IF n = 0 THEN EmptyRefs
    ELSE [TablesAfter(records, n - 1) EXCEPT ![InsertOf(records[n]).table] =
            DenseInsert(@, InsertOf(records[n]).value, InsertOf(records[n]).k,
                        DefaultOf(InsertOf(records[n]).table))]

\* the place in Flatten(records) just past the closing brace of record n
RECURSIVE EndOfRecord(_, _)
EndOfRecord(records, n) ==
    IF n = 0 THEN 0
    ELSE (IF n = 1 THEN 0 ELSE EndOfRecord(records, n - 1) + Len(Sep)) + Len(records[n])

\* the number of records that lie wholly in the first n bytes
WholeRecords(records, n) ==
    Cardinality({ i \in 1..Len(records) : EndOfRecord(records, i) <= n })

\* C24: a dictionary record whose decoding ends in EndOfInput or
\* InvalidFormat leaves every table as it was, so a record that straddles a
\* chunk boundary and is retried after the refill is inserted once and never
\* partially: when References::parse_file returns, the tables are those of
\* the file's records, each inserted once.
C24_InsertedOnce ==
    (kind = "refs" /\ pc = "done") => refs = TablesAfter(recs, Len(recs))

\* the part of C24 about one pass: over a window cut anywhere in a
\* dictionary, the tables after the pass are those of the records that lie
\* wholly in the window, the record the window ends in has changed nothing,
\* and the returned position is where that record's attempt began.
C24_Atomic ==
    (call.op = "refs_cut" /\ result.op = "refs_cut") =>
        /\ result.why = "End"
        /\ result.refs = TablesAfter(call.records, WholeRecords(call.records, call.n))
        /\ result.ret = EndOfRecord(call.records, WholeRecords(call.records, call.n))

\* a pass that ended inside the name of the second record, after one insert
C24_CutInName ==
    /\ call.op = "refs_cut" /\ call.records = << DictUser, DictComputer >>
    /\ call.n = Len(DictUser) + Len(Sep) + 8
    /\ result.op = "refs_cut" /\ result.why = "End"
    /\ Len(result.refs.users) = 2 /\ result.refs.computers = <<>>

\* C25: a cursor operation that fails with EndOfInput leaves the position
\* unchanged: skip(n) that would pass the end, skip_to and skip_to2 when the
\* bytes do not occur in the rest of the window, next() at the end; peek()
\* never moves it; and parse_raw that returns EndOfInput has consumed
\* nothing.
C25_FailureKeepsCursor ==
    (call.op = "cursor") =>
        /\ (result.op \in { "next", "skip", "skip_to", "skip_to2", "parse_raw" }
                /\ result.st = "End") => ptr = result.from
        /\ result.op = "peek" => ptr = result.from
        /\ (result.op = "next" /\ result.st = "End") => result.from = Len(call.b)

\* test_parse_none: parse_raw failed at position 5 of `1111,12345`, and the
\* cursor is still there
C25_RawFailedInPlace ==
    /\ call.op = "cursor" /\ call.b = TestNone
    /\ result.op = "parse_raw" /\ result.st = "End" /\ result.from = 5 /\ ptr = 5

\* C26: in every iteration of the loop of parse_file, before the read,
\* offset is below the buffer's length, so the region handed to the reader
\* is never empty; the buffer's length never decreases; and the loop is left
\* through a read of 0 bytes only when the source is exhausted.
C26_ReadRegionNotEmpty ==
    /\ [](pc = "loop" => offset < Len(buffer))
    /\ [][/\ Len(buffer') >= Len(buffer)
          /\ (pc = "loop" /\ pc' = "done") => fpos = Len(src)]_vars

\* parse_file returned after the buffer had been doubled and bytes had been
\* kept in front of a read
C26_ReturnedAfterGrowing ==
    pc = "done" /\ Len(buffer) > BufInit /\ offset > 0 /\ fpos = Len(src)

====
